---------------------------- MODULE Spec2Model ----------------------------
(***************************************************************************)
(* logog output targets (src/src/target.cpp): the Target registry and      *)
(* lifecycle, the receive lock, the file sink and the LogBuffer arena.     *)
(*                                                                         *)
(* The specifications share the variables of this module; each keeps the   *)
(* variables of the other parts fixed:                                     *)
(*   Spec      one LogBuffer driven by a single caller: Insert, Dump,      *)
(*             SetTarget and the destructor, each a whole call.            *)
(*   SpecFile  one LogFile: Output and the Open it triggers.               *)
(*   SpecReg   Targets constructed and destroyed by concurrent threads.    *)
(*   SpecConc  threads in Target::Receive and LogBuffer::Dump, one step    *)
(*             per lock operation or memory access.                        *)
(*   SpecConcFair  SpecConc under fair scheduling of the threads.          *)
(*   SpecLocks threads that construct and destroy Targets and call         *)
(*             Receive and Dump: the registry lock and the receive locks.  *)
(***************************************************************************)
EXTENDS Integers, Sequences, FiniteSets, TLC

(***************************************************************************)
(* Bounds of the model.                                                    *)
(***************************************************************************)
\* LogBuffer arena size (the constructor's s), in LOGOG_CHARs.
Cap == 6
\* Calls made on the LogBuffer in one behaviour of Spec.
MaxOps == 3
\* Output calls made on the LogFile in one behaviour of SpecFile.
MaxOutputs == 3
\* Targets constructed and destroyed in one behaviour of SpecReg, and the
\* Filters of AllFilters() they subscribe to.
NTargets == 3
NFilters == 2
\* Threads of SpecConc and the calls they make in one behaviour.
NThreads == 3
MaxCalls == 3

(***************************************************************************)
(* LogBuffer: memory layout.                                               *)
(***************************************************************************)
\* LOGOG_CHAR cells taken by the size_t length word that Insert writes in
\* front of every record: sizeof(size_t) / sizeof(LOGOG_CHAR), 2 for a
\* 4-byte wchar_t on LP64.
HeaderLen == 2

\* The terminator character.
NUL == 0

\* m_pOutputTarget: NoTarget is the NULL pointer, Downstream the Target.
NoTarget == "NULL"
Downstream == "T"

\* Lengths of the records offered to Insert: every length from one cell up
\* to one more than the arena holds.
MaxLen == Cap + 1

\* A record's text: n characters, alternating 1 and 2 from c, the last one
\* the terminator when term.
MkText(n, c, term) ==
    [i \in 1..n |-> IF term /\ i = n THEN NUL ELSE 1 + ((c + i) % 2)]

\* Lengths up to which a terminated variant of the text is offered too.
TermLen == 2

Texts == {MkText(n, 0, FALSE) : n \in 1..MaxLen}
         \cup {MkText(n, 0, TRUE) : n \in 1..TermLen}

\* Cells of memory from m_pStart on: the arena is 0..Cap-1, the cells from
\* Cap on are the memory behind m_pEnd that a write past the arena lands in.
MemSize == (MaxOps + MaxCalls) * (HeaderLen + Cap)
MemCells == 0..(MemSize - 1)

\* The length word as laid out in memory, low-order cell first.
SizeWord(n) == [i \in 1..HeaderLen |-> IF i = 1 THEN n ELSE 0]

\* m with the cells of seq stored from offset at on.
WriteCells(m, at, seq) ==
    [a \in DOMAIN m |->
        IF a >= at /\ a < at + Len(seq) THEN seq[a - at + 1] ELSE m[a]]

\* *pSize read back at offset at (the high-order cells of the word are 0).
ReadSize(m, at) == m[at]

\* The cells m[from .. from+n-1] as a string.
Slice(m, from, n) == [i \in 1..n |-> m[from + i - 1]]

\* What Dump's loop sees between offset p and the cursor c: for every
\* entry its offset, its length word, its text, and the string sOut that
\* sOut.assign( pCurrent, pCurrent + *pSize - 1 ) builds from it.
RECURSIVE Entries(_, _, _)
Entries(m, p, c) ==
    IF p < c
    THEN LET size == ReadSize(m, p)
             data == p + HeaderLen
         IN  <<[at   |-> p,
                size |-> size,
                text |-> Slice(m, data, size),
                sOut |-> Slice(m, data, size - 1)]>>
             \o Entries(m, data + size, c)
    ELSE << >>


(***************************************************************************)
(* State.                                                                  *)
(***************************************************************************)
VARIABLES
    \* LogBuffer
    mem,        \* the cells from m_pStart on
    cur,        \* m_pCurrent - m_pStart
    target,     \* m_pOutputTarget
    alive,      \* the LogBuffer is constructed and not yet destroyed
    \* what the caller and the downstream Target have seen of the LogBuffer
    ins,        \* the texts of the Insert calls that returned 0, in order
    sink,       \* the strings of the downstream Output calls that returned 0
    last,       \* the last call on the LogBuffer
    overrun,    \* some write landed outside [m_pStart, m_pEnd)
    nops        \* calls made so far

VARIABLES
    \* LogFile
    fFirstTime,   \* m_bFirstTime
    fOpenFailed,  \* m_bOpenFailed
    fFile,        \* m_pFile: "NULL" or "open"
    \* the build and the file system the LogFile runs on
    fBuild,       \* platform flavor, LOGOG_UNICODE, sizeof(LOGOG_CHAR), endianness
    fsExists,     \* a file of that name exists
    fsOpenable,   \* the name can be opened for appending
    fContent,     \* the bytes of the file written by this LogFile
    \* what the caller has seen
    fOpens,       \* append-mode opens attempted so far
    fLast,        \* the last Output call
    fCalls        \* Output calls made so far

VARIABLES
    \* Targets and the registry AllTargets()
    tpc,          \* per Target: where its constructor or destructor stands
    regLock,      \* holder of the AllTargets() lock, 0 when free
    registry,     \* the set AllTargets()
    regLocal,     \* per Target: the set as read by its insert or erase
    subs,         \* <<target, filter>>: the target is subscribed to the filter
    unsubCalls,   \* per Target: UnsubscribeToMultiple calls made
    formatter     \* per Target: m_pFormatter

VARIABLES
    \* threads in Target::Receive and LogBuffer::Dump
    cpc,          \* per thread: the statement it is about to execute
    cloc,         \* per thread: the locals of the call it is in
    mutexT,       \* holder of the downstream Target's m_MutexReceive, 0: free
    mutexB,       \* holder of the LogBuffer's m_MutexReceive, 0 when free
    inOut,        \* the threads inside the downstream Target's Output
    ncalls        \* calls begun so far

bufVars == <<mem, cur, target, alive, ins, sink, last, overrun, nops>>
fileVars == <<fFirstTime, fOpenFailed, fFile, fBuild, fsExists, fsOpenable,
              fContent, fOpens, fLast, fCalls>>

regVars == <<tpc, regLock, registry, regLocal, subs, unsubCalls, formatter>>

concVars == <<cpc, cloc, mutexT, mutexB, inOut, ncalls>>

vars == <<bufVars, fileVars, regVars, concVars>>

\* Statuses a failing downstream Output returns (any non-zero int).
FailStatuses == {-1, 13}

NoCall == [op |-> "none", arg |-> << >>, ret |-> 0, precur |-> 0,
           pre |-> << >>, calls |-> << >>, dumped |-> FALSE]

\* A Dump that resets the cursor although there is no downstream to hand
\* the records to.
DumpResetsWithoutTarget(m, c, tgt, k, st) ==
    IF tgt = NoTarget
    THEN [ret |-> -1, cur |-> 0, calls |-> << >>]
    ELSE LET es == Entries(m, 0, c)
             n  == Len(es)
         IN  IF k < n
             THEN [ret   |-> st,
                   cur   |-> c,
                   calls |-> [i \in 1..(k + 1) |->
                                [s  |-> es[i].sOut,
                                 st |-> IF i <= k THEN 0 ELSE st]]]
             ELSE [ret   |-> 0,
                   cur   |-> 0,
                   calls |-> [i \in 1..n |-> [s |-> es[i].sOut, st |-> 0]]]

\* A Dump that moves the cursor back to the start whether or not every
\* record was accepted.
DumpResetsOnFailure(m, c, tgt, k, st) ==
    IF tgt = NoTarget
    THEN [ret |-> -1, cur |-> c, calls |-> << >>]
    ELSE LET es == Entries(m, 0, c)
             n  == Len(es)
         IN  [ret   |-> IF k < n THEN st ELSE 0,
              cur   |-> 0,
              calls |-> [i \in 1..(IF k < n THEN k + 1 ELSE n) |->
                           [s  |-> es[i].sOut,
                            st |-> IF i <= k THEN 0 ELSE st]]]

(***************************************************************************)
(* LogBuffer::Dump, lines 398-434.  k is the number of downstream Output   *)
(* calls that return 0 before one returns st; with k the number of         *)
(* entries every call succeeds.  The result is the return value, the new   *)
(* cursor and the Output calls made, each with its status.                 *)
(***************************************************************************)
DumpCall(m, c, tgt, k, st) ==
    IF tgt = NoTarget
    THEN [ret |-> -1, cur |-> c, calls |-> << >>]
    ELSE LET es == Entries(m, 0, c)
             n  == Len(es)
         IN  IF k < n
             THEN [ret   |-> st,
                   cur   |-> c,
                   calls |-> [i \in 1..(k + 1) |->
                                [s  |-> es[i].sOut,
                                 st |-> IF i <= k THEN 0 ELSE st]]]
             ELSE [ret   |-> 0,
                   cur   |-> 0,
                   calls |-> [i \in 1..n |-> [s |-> es[i].sOut, st |-> 0]]]

\* The strings of the calls that returned 0.
RECURSIVE Delivered(_)
Delivered(calls) ==
    IF calls = << >> THEN << >>
    ELSE (IF Head(calls).st = 0 THEN <<Head(calls).s>> ELSE << >>)
         \o Delivered(Tail(calls))

(***************************************************************************)
(* LogBuffer::Insert, lines 373-396.  The result is the return value, the  *)
(* new memory and cursor, and the Dump it made (if any).                   *)
(***************************************************************************)
InsertCall(m, c, tgt, text, k, st) ==
    LET size   == Len(text)
        dumped == (c + size) >= Cap
        d      == IF dumped THEN DumpCall(m, c, tgt, k, st)
                  ELSE [ret |-> 0, cur |-> c, calls |-> << >>]
    IN  IF size > Cap
        THEN [ret |-> -1, mem |-> m, cur |-> d.cur,
              dumped |-> dumped, calls |-> d.calls, wrote |-> {}]
        ELSE [ret    |-> 0,
              mem    |-> WriteCells(WriteCells(m, d.cur, SizeWord(size)),
                                    d.cur + HeaderLen, text),
              cur    |-> d.cur + HeaderLen + size,
              dumped |-> dumped,
              calls  |-> d.calls,
              wrote  |-> d.cur..(d.cur + HeaderLen + size - 1)]

\* The downstream outcomes a Dump can meet with the cursor at c: every
\* Output call returns 0, or the call after k good ones returns st.
Outcomes(m, c) ==
    LET n == Len(Entries(m, 0, c))
    IN  {[k |-> n, st |-> 0]}
        \cup {[k |-> k, st |-> st] : k \in 0..(n - 1), st \in FailStatuses}

\* The outcomes Insert( text ) can meet: those of its Dump, if it makes one.
InsertOutcomes(m, c, text) ==
    IF (c + Len(text)) >= Cap THEN Outcomes(m, c) ELSE {[k |-> 0, st |-> 0]}

(***************************************************************************)
(* LogBuffer: the calls, each a whole one.                                   *)
(***************************************************************************)
Insert ==
    /\ alive /\ nops < MaxOps
    /\ \E text \in Texts :
       \E o \in InsertOutcomes(mem, cur, text) :
         LET r == InsertCall(mem, cur, target, text, o.k, o.st)
         IN  /\ mem' = r.mem
             /\ cur' = r.cur
             /\ ins' = IF r.ret = 0 THEN Append(ins, text) ELSE ins
             /\ sink' = sink \o Delivered(r.calls)
             /\ overrun' = (overrun \/ \E a \in r.wrote : a >= Cap)
             /\ last' = [op |-> "Insert", arg |-> text, ret |-> r.ret,
                         precur |-> cur,
                         pre |-> Entries(mem, 0, cur), calls |-> r.calls,
                         dumped |-> r.dumped]
    /\ nops' = nops + 1
    /\ UNCHANGED <<target, alive>>
    /\ UNCHANGED <<fileVars, regVars, concVars>>

Dump ==
    /\ alive /\ nops < MaxOps
    /\ \E o \in Outcomes(mem, cur) :
         LET r == DumpCall(mem, cur, target, o.k, o.st)
         IN  /\ cur' = r.cur
             /\ sink' = sink \o Delivered(r.calls)
             /\ last' = [op |-> "Dump", arg |-> << >>, ret |-> r.ret,
                         precur |-> cur,
                         pre |-> Entries(mem, 0, cur), calls |-> r.calls,
                         dumped |-> TRUE]
    /\ nops' = nops + 1
    /\ UNCHANGED <<mem, target, alive, ins, overrun>>
    /\ UNCHANGED <<fileVars, regVars, concVars>>

\* LogBuffer::SetTarget, lines 368-371.
SetTarget ==
    /\ alive /\ nops < MaxOps
    /\ target' = Downstream
    /\ last' = [NoCall EXCEPT !.op = "SetTarget", !.precur = cur,
                              !.pre = Entries(mem, 0, cur)]
    /\ nops' = nops + 1
    /\ UNCHANGED <<mem, cur, alive, ins, sink, overrun>>
    /\ UNCHANGED <<fileVars, regVars, concVars>>

\* LogBuffer::~LogBuffer, lines 362-366: Dump(), then Deallocate().
Destroy ==
    /\ alive
    /\ \E o \in Outcomes(mem, cur) :
         LET r == DumpCall(mem, cur, target, o.k, o.st)
         IN  /\ cur' = r.cur
             /\ sink' = sink \o Delivered(r.calls)
             /\ last' = [op |-> "Destroy", arg |-> << >>, ret |-> r.ret,
                         precur |-> cur,
                         pre |-> Entries(mem, 0, cur), calls |-> r.calls,
                         dumped |-> TRUE]
    /\ alive' = FALSE
    /\ UNCHANGED <<mem, target, ins, overrun, nops>>
    /\ UNCHANGED <<fileVars, regVars, concVars>>

(***************************************************************************)
(* Target: construction, destruction and the registry AllTargets().        *)
(***************************************************************************)
Targets == 1..NTargets
Filters == 1..NFilters

\* The constructor with the subscription moved in front of the insertion.
CtorStepsSubscribeFirst ==
    <<"SetFormatter", "Subscribe", "lock", "read", "insert", "unlock">>

\* Target::Target, lines 124-136, statement by statement.  The insert into
\* the set is a read of the set followed by a write of it.
CtorSteps ==
    <<"SetFormatter", "lock", "read", "insert", "unlock", "Subscribe">>

\* Target::~Target, lines 139-149, statement by statement.
DtorSteps == <<"Unsubscribe", "lock", "read", "erase", "unlock">>

StepsOf(phase) == IF phase = "ctor" THEN CtorSteps ELSE DtorSteps

\* The statement Target t is about to execute ("" when it is in neither
\* its constructor nor its destructor).
At(t) ==
    IF tpc[t].phase \in {"ctor", "dtor"}
    THEN StepsOf(tpc[t].phase)[tpc[t].i]
    ELSE ""

\* t's position after the statement it is at.
After(t) ==
    IF tpc[t].i < Len(StepsOf(tpc[t].phase))
    THEN [tpc[t] EXCEPT !.i = @ + 1]
    ELSE [phase |-> IF tpc[t].phase = "ctor" THEN "live" ELSE "dead",
          i |-> 0]

Goto(t) == tpc' = [tpc EXCEPT ![t] = After(t)]

SubscribedTo(t) == {f \in Filters : <<t, f>> \in subs}

\* A thread enters the constructor of t.
Construct(t) ==
    /\ tpc[t].phase = "unborn"
    /\ tpc' = [tpc EXCEPT ![t] = [phase |-> "ctor", i |-> 1]]
    /\ UNCHANGED <<regLock, registry, regLocal, subs, unsubCalls, formatter>>
    /\ UNCHANGED <<bufVars, fileVars, concVars>>

\* A thread enters the destructor of the constructed Target t.
Destruct(t) ==
    /\ tpc[t].phase = "live"
    /\ tpc' = [tpc EXCEPT ![t] = [phase |-> "dtor", i |-> 1]]
    /\ UNCHANGED <<regLock, registry, regLocal, subs, unsubCalls, formatter>>
    /\ UNCHANGED <<bufVars, fileVars, concVars>>

\* Line 127: SetFormatter( GetDefaultFormatter() ).
CtorSetFormatter(t) ==
    /\ At(t) = "SetFormatter"
    /\ formatter' = [formatter EXCEPT ![t] = "default"]
    /\ Goto(t)
    /\ UNCHANGED <<regLock, registry, regLocal, subs, unsubCalls>>
    /\ UNCHANGED <<bufVars, fileVars, concVars>>

\* A lock that is taken without waiting for its holder to release it.
LockTakenWithoutWaiting(t) ==
    /\ At(t) = "lock"
    /\ regLock' = t
    /\ Goto(t)
    /\ UNCHANGED <<registry, regLocal, subs, unsubCalls, formatter>>
    /\ UNCHANGED <<bufVars, fileVars, concVars>>

\* Lines 131 and 146: ScopedLock sl( *pAllTargets ) waits for the lock.
LockRegistry(t) ==
    /\ At(t) = "lock"
    /\ regLock = 0
    /\ regLock' = t
    /\ Goto(t)
    /\ UNCHANGED <<registry, regLocal, subs, unsubCalls, formatter>>
    /\ UNCHANGED <<bufVars, fileVars, concVars>>

\* Lines 132 and 147, first half: the set is read.
ReadRegistry(t) ==
    /\ At(t) = "read"
    /\ regLocal' = [regLocal EXCEPT ![t] = registry]
    /\ Goto(t)
    /\ UNCHANGED <<regLock, registry, subs, unsubCalls, formatter>>
    /\ UNCHANGED <<bufVars, fileVars, concVars>>

\* Line 132: pAllTargets->insert( this ).
InsertSelf(t) ==
    /\ At(t) = "insert"
    /\ registry' = regLocal[t] \cup {t}
    /\ Goto(t)
    /\ UNCHANGED <<regLock, regLocal, subs, unsubCalls, formatter>>
    /\ UNCHANGED <<bufVars, fileVars, concVars>>

\* Line 147: pAllTargets->erase( this ).
EraseSelf(t) ==
    /\ At(t) = "erase"
    /\ registry' = regLocal[t] \ {t}
    /\ Goto(t)
    /\ UNCHANGED <<regLock, regLocal, subs, unsubCalls, formatter>>
    /\ UNCHANGED <<bufVars, fileVars, concVars>>

\* Lines 133 and 148: the ScopedLock leaves its block.
UnlockRegistry(t) ==
    /\ At(t) = "unlock"
    /\ regLock' = IF regLock = t THEN 0 ELSE regLock
    /\ Goto(t)
    /\ UNCHANGED <<registry, regLocal, subs, unsubCalls, formatter>>
    /\ UNCHANGED <<bufVars, fileVars, concVars>>

\* The first Filter of a non-empty set, in the order AllFilters() is walked.
FirstOf(fs) == CHOOSE f \in fs : \A g \in fs : f <= g

\* Line 135: SubscribeToMultiple( AllFilters() ) subscribes t to the
\* Filters one after the other.
Subscribe(t) ==
    /\ At(t) = "Subscribe"
    /\ LET f == FirstOf(Filters \ SubscribedTo(t))
       IN
         /\ subs' = subs \cup {<<t, f>>}
         /\ IF SubscribedTo(t) \cup {f} = Filters
            THEN Goto(t)
            ELSE UNCHANGED tpc
    /\ UNCHANGED <<regLock, registry, regLocal, unsubCalls, formatter>>
    /\ UNCHANGED <<bufVars, fileVars, concVars>>

\* Line 143: UnsubscribeToMultiple( AllFilters() ) takes t off the Filters
\* one after the other.
Unsubscribe(t) ==
    /\ At(t) = "Unsubscribe"
    /\ LET f == FirstOf(SubscribedTo(t))
       IN
         /\ subs' = subs \ {<<t, f>>}
         /\ IF SubscribedTo(t) = {f}
            THEN /\ Goto(t)
                 /\ unsubCalls' = [unsubCalls EXCEPT ![t] = @ + 1]
            ELSE UNCHANGED <<tpc, unsubCalls>>
    /\ UNCHANGED <<regLock, registry, regLocal, formatter>>
    /\ UNCHANGED <<bufVars, fileVars, concVars>>

RegStep(t) ==
    \/ Construct(t)
    \/ CtorSetFormatter(t)
    \/ LockRegistry(t)
    \/ ReadRegistry(t)
    \/ InsertSelf(t)
    \/ UnlockRegistry(t)
    \/ Subscribe(t)
    \/ Destruct(t)
    \/ Unsubscribe(t)
    \/ EraseSelf(t)

(***************************************************************************)
(* Threads: Target::Receive on the downstream Target and on the LogBuffer  *)
(* (whose Output is Insert), and LogBuffer::Dump, one step per lock        *)
(* operation, test or store.  The downstream Target's Output is entered    *)
(* and left in separate steps.                                             *)
(***************************************************************************)
Threads == 1..NThreads

\* The strings the Formatter renders for the LogBuffer: one that fits the
\* arena and one that is longer than the arena.
ConcTexts == {MkText(1, 0, FALSE), MkText(MaxLen, 0, FALSE)}

\* Statuses the downstream Output returns.
OutputStatuses == {0} \cup FailStatuses

\* Locals: op the call made, text the string handed to Insert, nested
\* whether Dump was called by Insert, dp Dump's pCurrent (an offset from
\* m_pStart), ret the value the last call returned.
NoLocals == [op |-> "none", text |-> << >>, nested |-> FALSE, dp |-> 0,
             ret |-> 0]

SetPc(th, pc) == cpc' = [cpc EXCEPT ![th] = pc]

\* A thread calls Receive on the downstream Target.
CallReceiveT(th) ==
    /\ cpc[th] = "idle" /\ ncalls < MaxCalls
    /\ ncalls' = ncalls + 1
    /\ cloc' = [cloc EXCEPT ![th] = [NoLocals EXCEPT !.op = "ReceiveT"]]
    /\ SetPc(th, "rt_lock")
    /\ UNCHANGED <<mutexT, mutexB, inOut, bufVars, fileVars, regVars>>

\* Line 163 on the downstream Target: ScopedLock sl( m_MutexReceive ).
RT_Lock(th) ==
    /\ cpc[th] = "rt_lock"
    /\ mutexT = 0
    /\ mutexT' = th
    /\ SetPc(th, "rt_output")
    /\ UNCHANGED <<cloc, mutexB, inOut, ncalls, bufVars, fileVars, regVars>>

\* Line 164: Format, and Output is entered.
RT_OutputBegin(th) ==
    /\ cpc[th] = "rt_output"
    /\ inOut' = inOut \cup {th}
    /\ SetPc(th, "rt_writing")
    /\ UNCHANGED <<cloc, mutexT, mutexB, ncalls, bufVars, fileVars, regVars>>

\* Line 164: Output returns its status.
RT_OutputEnd(th) ==
    /\ cpc[th] = "rt_writing"
    /\ inOut' = inOut \ {th}
    /\ \E st \in OutputStatuses :
         cloc' = [cloc EXCEPT ![th].ret = st]
    /\ SetPc(th, "rt_unlock")
    /\ UNCHANGED <<mutexT, mutexB, ncalls, bufVars, fileVars, regVars>>

\* Receive returning with the lock still held.
RT_UnlockKeepsLock(th) ==
    /\ cpc[th] = "rt_unlock"
    /\ SetPc(th, "idle")
    /\ UNCHANGED <<cloc, mutexT, mutexB, inOut, ncalls, bufVars, fileVars,
                   regVars>>

\* Line 165: the ScopedLock is destroyed, Receive returns.
RT_Unlock(th) ==
    /\ cpc[th] = "rt_unlock"
    /\ mutexT' = IF mutexT = th THEN 0 ELSE mutexT
    /\ SetPc(th, "idle")
    /\ UNCHANGED <<cloc, mutexB, inOut, ncalls, bufVars, fileVars, regVars>>

\* A thread calls Receive on the LogBuffer; the Formatter renders text.
CallReceiveB(th) ==
    /\ cpc[th] = "idle" /\ ncalls < MaxCalls
    /\ ncalls' = ncalls + 1
    /\ \E text \in ConcTexts :
         cloc' = [cloc EXCEPT ![th] =
                    [NoLocals EXCEPT !.op = "ReceiveB", !.text = text]]
    /\ SetPc(th, "rb_lock")
    /\ UNCHANGED <<mutexT, mutexB, inOut, bufVars, fileVars, regVars>>

\* Line 163 on the LogBuffer.
RB_Lock(th) ==
    /\ cpc[th] = "rb_lock"
    /\ mutexB = 0
    /\ mutexB' = th
    /\ SetPc(th, "ins_test")
    /\ UNCHANGED <<cloc, mutexT, inOut, ncalls, bufVars, fileVars, regVars>>

\* Lines 375-376: the overflow test of Insert, and the call of Dump.
Ins_Test(th) ==
    /\ cpc[th] = "ins_test"
    /\ IF (cur + Len(cloc[th].text)) >= Cap
       THEN /\ cloc' = [cloc EXCEPT ![th].nested = TRUE]
            /\ SetPc(th, "d_null")
       ELSE /\ SetPc(th, "ins_size")
            /\ UNCHANGED cloc
    /\ UNCHANGED <<mutexT, mutexB, inOut, ncalls, bufVars, fileVars, regVars>>

\* Lines 378-384: the size test of Insert.
Ins_Size(th) ==
    /\ cpc[th] = "ins_size"
    /\ IF Len(cloc[th].text) > Cap
       THEN /\ cloc' = [cloc EXCEPT ![th].ret = -1]
            /\ SetPc(th, "rb_unlock")
       ELSE /\ SetPc(th, "ins_header")
            /\ UNCHANGED cloc
    /\ UNCHANGED <<mutexT, mutexB, inOut, ncalls, bufVars, fileVars, regVars>>

\* Lines 387-390: the length word is stored, the cursor moves behind it.
Ins_Header(th) ==
    /\ cpc[th] = "ins_header"
    /\ mem' = WriteCells(mem, cur, SizeWord(Len(cloc[th].text)))
    /\ cur' = cur + HeaderLen
    /\ SetPc(th, "ins_copy")
    /\ UNCHANGED <<cloc, mutexT, mutexB, inOut, ncalls, target, alive, ins,
                   sink, last, overrun, nops, fileVars, regVars>>

\* Lines 392-395: the characters are copied, the cursor moves behind them.
Ins_Copy(th) ==
    /\ cpc[th] = "ins_copy"
    /\ mem' = WriteCells(mem, cur, cloc[th].text)
    /\ cur' = cur + Len(cloc[th].text)
    /\ cloc' = [cloc EXCEPT ![th].ret = 0]
    /\ SetPc(th, "rb_unlock")
    /\ UNCHANGED <<mutexT, mutexB, inOut, ncalls, target, alive, ins,
                   sink, last, overrun, nops, fileVars, regVars>>

\* Line 165 on the LogBuffer.
RB_Unlock(th) ==
    /\ cpc[th] = "rb_unlock"
    /\ mutexB' = IF mutexB = th THEN 0 ELSE mutexB
    /\ SetPc(th, "idle")
    /\ UNCHANGED <<cloc, mutexT, inOut, ncalls, bufVars, fileVars, regVars>>

\* A thread calls Dump on the LogBuffer.
CallDump(th) ==
    /\ cpc[th] = "idle" /\ ncalls < MaxCalls
    /\ ncalls' = ncalls + 1
    /\ cloc' = [cloc EXCEPT ![th] = [NoLocals EXCEPT !.op = "Dump"]]
    /\ SetPc(th, "d_null")
    /\ UNCHANGED <<mutexT, mutexB, inOut, bufVars, fileVars, regVars>>

\* Where a thread continues when its Dump returns.
AfterDump(th) == IF cloc[th].nested THEN "ins_size" ELSE "idle"

\* Lines 400-405: pCurrent = m_pStart, and the test for a NULL target.
D_Null(th) ==
    /\ cpc[th] = "d_null"
    /\ IF target = NoTarget
       THEN /\ cloc' = [cloc EXCEPT ![th].dp = 0, ![th].ret = -1]
            /\ SetPc(th, AfterDump(th))
       ELSE /\ cloc' = [cloc EXCEPT ![th].dp = 0]
            /\ SetPc(th, "d_lock")
    /\ UNCHANGED <<mutexT, mutexB, inOut, ncalls, bufVars, fileVars, regVars>>

\* Dump going on to its loop without the downstream Target's lock.
D_LockNotTaken(th) ==
    /\ cpc[th] = "d_lock"
    /\ SetPc(th, "d_loop")
    /\ UNCHANGED <<cloc, mutexT, mutexB, inOut, ncalls, bufVars, fileVars,
                   regVars>>

\* Dump locking the LogBuffer's own m_MutexReceive instead of the
\* downstream Target's.
D_LockOwn(th) ==
    /\ cpc[th] = "d_lock"
    /\ mutexB = 0
    /\ mutexB' = th
    /\ SetPc(th, "d_loop")
    /\ UNCHANGED <<cloc, mutexT, inOut, ncalls, bufVars, fileVars, regVars>>

\* Line 408: ScopedLock sl( m_pOutputTarget->m_MutexReceive ).
D_Lock(th) ==
    /\ cpc[th] = "d_lock"
    /\ mutexT = 0
    /\ mutexT' = th
    /\ SetPc(th, "d_loop")
    /\ UNCHANGED <<cloc, mutexB, inOut, ncalls, bufVars, fileVars, regVars>>

\* Line 410: while ( pCurrent < m_pCurrent ).
D_Loop(th) ==
    /\ cpc[th] = "d_loop"
    /\ SetPc(th, IF cloc[th].dp < cur THEN "d_output" ELSE "d_reset")
    /\ UNCHANGED <<cloc, mutexT, mutexB, inOut, ncalls, bufVars, fileVars,
                   regVars>>

\* Lines 412-422: pCurrent moves behind the length word, sOut is built and
\* the downstream Output is entered.
D_OutputBegin(th) ==
    /\ cpc[th] = "d_output"
    /\ cloc' = [cloc EXCEPT ![th].dp = @ + HeaderLen]
    /\ inOut' = inOut \cup {th}
    /\ SetPc(th, "d_writing")
    /\ UNCHANGED <<mutexT, mutexB, ncalls, bufVars, fileVars, regVars>>

\* Dump returning the failure of Output without giving up the lock.
D_OutputEndKeepsLock(th) ==
    /\ cpc[th] = "d_writing"
    /\ inOut' = inOut \ {th}
    /\ \E st \in OutputStatuses :
         IF st # 0
         THEN /\ cloc' = [cloc EXCEPT ![th].ret = st]
              /\ SetPc(th, AfterDump(th))
         ELSE /\ cloc' = [cloc EXCEPT ![th].dp =
                            @ + ReadSize(mem, @ - HeaderLen)]
              /\ SetPc(th, "d_loop")
    /\ UNCHANGED <<mutexT, mutexB, ncalls, bufVars, fileVars, regVars>>

\* Lines 422-427: Output returns; on a failure Dump returns it (and the
\* ScopedLock is destroyed), else pCurrent += *pSize.
D_OutputEnd(th) ==
    /\ cpc[th] = "d_writing"
    /\ inOut' = inOut \ {th}
    /\ \E st \in OutputStatuses :
         IF st # 0
         THEN /\ cloc' = [cloc EXCEPT ![th].ret = st]
              /\ mutexT' = IF mutexT = th THEN 0 ELSE mutexT
              /\ SetPc(th, AfterDump(th))
         ELSE /\ cloc' = [cloc EXCEPT ![th].dp =
                            @ + ReadSize(mem, @ - HeaderLen)]
              /\ UNCHANGED mutexT
              /\ SetPc(th, "d_loop")
    /\ UNCHANGED <<mutexB, ncalls, bufVars, fileVars, regVars>>

\* Lines 431-433: m_pCurrent = m_pStart, return 0 (the ScopedLock is
\* destroyed).
D_Reset(th) ==
    /\ cpc[th] = "d_reset"
    /\ cur' = 0
    /\ cloc' = [cloc EXCEPT ![th].ret = 0]
    /\ mutexT' = IF mutexT = th THEN 0 ELSE mutexT
    /\ SetPc(th, AfterDump(th))
    /\ UNCHANGED <<mutexB, inOut, ncalls, mem, target, alive, ins, sink,
                   last, overrun, nops, fileVars, regVars>>

ConcStep(th) ==
    \/ CallReceiveT(th)
    \/ RT_Lock(th)
    \/ RT_OutputBegin(th)
    \/ RT_OutputEnd(th)
    \/ RT_Unlock(th)
    \/ CallReceiveB(th)
    \/ RB_Lock(th)
    \/ Ins_Test(th)
    \/ Ins_Size(th)
    \/ Ins_Header(th)
    \/ Ins_Copy(th)
    \/ RB_Unlock(th)
    \/ CallDump(th)
    \/ D_Null(th)
    \/ D_Lock(th)
    \/ D_Loop(th)
    \/ D_OutputBegin(th)
    \/ D_OutputEnd(th)
    \/ D_Reset(th)

(***************************************************************************)
(* LogFile.                                                                *)
(***************************************************************************)
\* The builds: LOGOG_FLAVOR_WINDOWS or not, LOGOG_UNICODE or not, the size
\* of a LOGOG_CHAR in bytes (char: 1; wchar_t: 2 or 4, 1 on the rare
\* system the comment at lines 326-328 speaks of) and the host's byte order.
Builds ==
    {b \in [platform : {"windows", "posix"}, unicode : BOOLEAN,
            width : {1, 2, 4}, little : BOOLEAN] :
        /\ (~b.unicode) => b.width = 1
        /\ b.platform = "windows" => (b.little /\ b.width # 4)}

\* Error numbers fopen_s returns for a file it cannot open (ENOENT, EACCES).
OpenErrnos == {2, 13}

\* The strings handed to LogFile::Output.
FileTexts == {<<1>>, <<1, 2>>}

NoOutput == [ret |-> 0, opened |-> FALSE, data |-> << >>]

\* One LOGOG_CHAR as the bytes fwrite stores, in the host's byte order.
CharBytes(ch, b) ==
    [i \in 1..b.width |->
        IF b.little THEN (IF i = 1 THEN ch ELSE 0)
        ELSE (IF i = b.width THEN ch ELSE 0)]

RECURSIVE StringBytes(_, _)
StringBytes(str, b) ==
    IF str = << >> THEN << >>
    ELSE CharBytes(Head(str), b) \o StringBytes(Tail(str), b)

\* LogFile::WriteUnicodeBOM, lines 314-351: the bytes of the one LOGOG_CHAR
\* it hands to InternalOutput.
BOMBytes(b) ==
    CASE b.width = 2 -> IF b.little THEN <<255, 254>> ELSE <<254, 255>>
      [] b.width = 4 -> IF b.little THEN <<255, 254, 0, 0>>
                        ELSE <<0, 0, 254, 255>>
      [] OTHER -> << >>

\* LogFile::InternalOutput, lines 302-312: fwrite stores the first n of
\* the nSize characters; fewer than nSize is a short write.
InternalOutput(content, str, n, b) ==
    [ret     |-> IF n # Len(str) THEN -1 ELSE 0,
     content |-> content \o StringBytes(SubSeq(str, 1, n), b)]

\* LogFile::Open, lines 232-282.  ok: the append-mode open succeeds; err:
\* what fopen_s returns when it does not; bomOk: the byte-order mark, if
\* one is written, is written whole.
OpenCall(b, exists, content, ok, err, bomOk) ==
    LET bFileAlreadyExists == exists
        failed == [ret |-> -1, file |-> "NULL", openFailed |-> TRUE,
                   content |-> content]
    IN  IF b.platform = "windows" /\ ~ok
        THEN [ret |-> err, file |-> "NULL", openFailed |-> FALSE,
              content |-> content]
        ELSE IF ~ok THEN failed
        ELSE [ret        |-> 0,
              file       |-> "open",
              openFailed |-> FALSE,
              content    |->
                  IF b.unicode /\ ~bFileAlreadyExists /\ bomOk
                  THEN content \o BOMBytes(b)
                  ELSE content]

\* LogFile::Output, lines 284-300.
Output ==
    /\ fCalls < MaxOutputs
    /\ \E data \in FileTexts, err \in OpenErrnos, bomOk \in BOOLEAN :
       \E n \in 0..Len(data) :
         IF fOpenFailed
         THEN /\ fLast' = [ret |-> -1, opened |-> FALSE, data |-> data]
              /\ UNCHANGED <<fFirstTime, fOpenFailed, fFile, fContent,
                             fOpens, fsExists>>
         ELSE LET o == IF fFirstTime
                       THEN OpenCall(fBuild, fsExists, fContent, fsOpenable,
                                     err, bomOk)
                       ELSE [ret |-> 0, file |-> fFile,
                             openFailed |-> fOpenFailed,
                             content |-> fContent]
                  w == InternalOutput(o.content, data, n, fBuild)
              IN  /\ fOpens' = IF fFirstTime THEN fOpens + 1 ELSE fOpens
                  /\ fFile' = o.file
                  /\ fOpenFailed' = o.openFailed
                  /\ fsExists' = (fsExists \/ o.file = "open")
                  /\ IF o.ret # 0
                     THEN /\ fLast' = [ret |-> o.ret, opened |-> fFirstTime,
                                       data |-> data]
                          /\ fContent' = o.content
                          /\ UNCHANGED fFirstTime
                     ELSE /\ fFirstTime' = FALSE
                          /\ fContent' = w.content
                          /\ fLast' = [ret |-> w.ret, opened |-> fFirstTime,
                                       data |-> data]
    /\ fCalls' = fCalls + 1
    /\ UNCHANGED <<fBuild, fsOpenable>>
    /\ UNCHANGED <<bufVars, regVars, concVars>>

\* LogBuffer::LogBuffer and Allocate, lines 353-360 and 441-446: the arena
\* is uninitialised (any content; 0 stands for it), the cursor at m_pStart
\* and the downstream the constructor's pTarget, which may be NULL.
BufInit ==
    /\ mem = [a \in MemCells |-> 0]
    /\ cur = 0
    /\ alive = TRUE
    /\ ins = << >>
    /\ sink = << >>
    /\ last = NoCall
    /\ overrun = FALSE
    /\ nops = 0

\* LogFile::LogFile, lines 195-222.
FileInit ==
    /\ fFirstTime = TRUE
    /\ fOpenFailed = FALSE
    /\ fFile = "NULL"
    /\ fContent = << >>
    /\ fOpens = 0
    /\ fLast = NoOutput
    /\ fCalls = 0

\* The parts a specification does not move.
FileIdle ==
    /\ FileInit
    /\ fBuild = [platform |-> "posix", unicode |-> FALSE, width |-> 1,
                 little |-> TRUE]
    /\ fsExists = FALSE
    /\ fsOpenable = TRUE

BufIdle == BufInit /\ target = NoTarget

\* No Target constructed yet; the registry and the Filters' lists empty.
RegInit ==
    /\ tpc = [t \in Targets |-> [phase |-> "unborn", i |-> 0]]
    /\ regLock = 0
    /\ registry = {}
    /\ regLocal = [t \in Targets |-> {}]
    /\ subs = {}
    /\ unsubCalls = [t \in Targets |-> 0]
    /\ formatter = [t \in Targets |-> "unset"]

\* Every thread outside any call, both locks free.
ConcInit ==
    /\ cpc = [th \in Threads |-> "idle"]
    /\ cloc = [th \in Threads |-> NoLocals]
    /\ mutexT = 0
    /\ mutexB = 0
    /\ inOut = {}
    /\ ncalls = 0

Init ==
    /\ BufInit
    /\ target \in {NoTarget, Downstream}
    /\ FileIdle
    /\ RegInit
    /\ ConcInit

Next == Insert \/ Dump \/ SetTarget \/ Destroy

Spec == Init /\ [][Next]_vars

FileSpecInit ==
    /\ FileInit
    /\ fBuild \in Builds
    /\ fsExists \in BOOLEAN
    /\ fsOpenable \in BOOLEAN
    /\ BufIdle
    /\ RegInit
    /\ ConcInit

FileNext == Output

SpecFile == FileSpecInit /\ [][FileNext]_vars

RegSpecInit == RegInit /\ BufIdle /\ FileIdle /\ ConcInit

RegNext == \E t \in Targets : RegStep(t)

SpecReg == RegSpecInit /\ [][RegNext]_vars

ConcSpecInit ==
    /\ ConcInit
    /\ BufInit
    /\ target \in {NoTarget, Downstream}
    /\ FileIdle
    /\ RegInit

ConcNext == \E th \in Threads : ConcStep(th)

SpecConc == ConcSpecInit /\ [][ConcNext]_vars

\* Scheduling: a thread inside a call that can take a step eventually
\* takes one, and a thread waiting for a lock that is free again and again
\* eventually gets it.
ConcFairness ==
    \A th \in Threads :
        /\ WF_vars(cpc[th] # "idle" /\ ConcStep(th))
        /\ SF_vars(RT_Lock(th) \/ RB_Lock(th) \/ D_Lock(th))

SpecConcFair == SpecConc /\ ConcFairness

\* Threads that construct and destroy Targets and call Receive and Dump:
\* thread th is the one that constructs and destroys Target th.  A thread
\* is in a constructor or destructor (lines 124-149) or in a call of
\* Receive or Dump (161-165, 398-434), never in both: neither calls the
\* other.  Constructions and destructions count as calls of the behaviour.
OpsBegun ==
    ncalls + Cardinality({t \in Targets : tpc[t].phase # "unborn"})
           + Cardinality({t \in Targets : tpc[t].phase \in {"dtor", "dead"}})

LockStep(th) ==
    \/ /\ cpc[th] = "idle"
       /\ tpc[th].phase \in {"ctor", "dtor"} \/ OpsBegun < MaxCalls
       /\ RegStep(th)
    \/ /\ tpc[th].phase \notin {"ctor", "dtor"}
       /\ cpc[th] # "idle" \/ OpsBegun < MaxCalls
       /\ ConcStep(th)

LockNext == \E th \in Threads \cap Targets : LockStep(th)

SpecLocks == ConcSpecInit /\ [][LockNext]_vars

(***************************************************************************)
(* Helpers of the properties.                                              *)
(***************************************************************************)
\* The arena cells a sequence of texts takes, length words included.
RECURSIVE Footprint(_)
Footprint(texts) ==
    IF texts = << >> THEN 0
    ELSE HeaderLen + Len(Head(texts)) + Footprint(Tail(texts))

\* A text without its last character.
DropLast(text) == SubSeq(text, 1, Len(text) - 1)

\* a is b with zero or more elements left out.
RECURSIVE IsSubseq(_, _)
IsSubseq(a, b) ==
    IF a = << >> THEN TRUE
    ELSE IF b = << >> THEN FALSE
    ELSE IF Head(a) = Head(b) THEN IsSubseq(Tail(a), Tail(b))
    ELSE IsSubseq(a, Tail(b))

\* The strings handed to the downstream Output by the last call, and the
\* texts buffered when the last call began.
LastStrings == [i \in 1..Len(last.calls) |-> last.calls[i].s]
LastPreTexts == [i \in 1..Len(last.pre) |-> last.pre[i].text]
BufferedTexts ==
    LET es == Entries(mem, 0, cur) IN [i \in 1..Len(es) |-> es[i].text]

(***************************************************************************)
(* C1.  Round trip: records inserted into an empty buffer, whose total     *)
(* size (length words included) is at most the capacity, followed by a     *)
(* Dump that succeeds: the Dump hands the downstream Output exactly the    *)
(* inserted texts, in order, character for character.                      *)
(***************************************************************************)
C1_RoundTripLaw ==
    ( /\ last.op = "Dump" /\ last.ret = 0
      /\ nops = Len(ins) + 1
      /\ Footprint(ins) <= Cap )
    => LastStrings = ins

(***************************************************************************)
(* C2.  Arena invariant: start <= current <= end, no write outside         *)
(* [start, end), and [start, current) parses as complete records.          *)
(***************************************************************************)
C2_ArenaInvariant ==
    /\ 0 <= cur /\ cur <= Cap
    /\ ~overrun
    /\ Footprint(BufferedTexts) = cur

(***************************************************************************)
(* C3.  Insert of a record longer than the arena returns -1 and changes    *)
(* nothing: cursor unmoved, buffered records kept, no downstream Output.   *)
(***************************************************************************)
C3_TooLargeLeavesState ==
    (last.op = "Insert" /\ Len(last.arg) > Cap)
    => /\ last.ret = -1
       /\ cur = last.precur
       /\ BufferedTexts = LastPreTexts
       /\ last.calls = << >>

(***************************************************************************)
(* C7.  No loss on teardown: the destructor has handed every record that   *)
(* was still in the arena to the downstream Output (here: one Output call  *)
(* per buffered record, whatever its status).                              *)
(***************************************************************************)
C7_NoLossOnTeardown ==
    (~alive) => Len(last.calls) = Len(last.pre)

(***************************************************************************)
(* C8.  Exactly-once delivery: the strings the downstream Output accepted  *)
(* are the accepted records (less the trimmed character), each at most     *)
(* once and in insertion order.                                            *)
(***************************************************************************)
C8_AtMostOnceInOrder ==
    (~overrun) => IsSubseq(sink, [i \in 1..Len(ins) |-> DropLast(ins[i])])

(***************************************************************************)
(* C9.  Flush before store: an Insert of a record that fits the arena but  *)
(* not the space remaining hands every buffered record to the downstream, *)
(* in order, and leaves the new record as the only one buffered.           *)
(***************************************************************************)
C9_FlushBeforeStore ==
    ( /\ last.op = "Insert"
      /\ HeaderLen + Len(last.arg) <= Cap
      /\ last.precur + HeaderLen + Len(last.arg) > Cap
      /\ last.precur <= Cap )
    => /\ Len(last.calls) = Len(last.pre)
       /\ \A i \in 1..Len(last.calls) : last.calls[i].st = 0
       /\ BufferedTexts = <<last.arg>>

(***************************************************************************)
(* C5.  File sink permanent failure: with a file that cannot be opened,    *)
(* every Output call, the first included, returns failure, and the open    *)
(* is attempted exactly once over all the calls, on every platform.        *)
(***************************************************************************)
C5_OpenAttemptedOnce ==
    (~fsOpenable /\ fCalls >= 1) => (fLast.ret # 0 /\ fOpens = 1)

(***************************************************************************)
(* C6.  Registry membership: whenever no constructor or destructor is in   *)
(* progress the registry holds exactly the live Targets (so it is empty    *)
(* once all are destroyed), no Target is unsubscribed twice, and a         *)
(* destroyed Target has been unsubscribed once.                            *)
(***************************************************************************)
Quiescent == \A t \in Targets : tpc[t].phase \in {"unborn", "live", "dead"}

LiveTargets == {t \in Targets : tpc[t].phase = "live"}

C6_RegistryMembership ==
    /\ Quiescent => registry = LiveTargets
    /\ \A t \in Targets :
         /\ unsubCalls[t] <= 1
         /\ tpc[t].phase = "dead" => unsubCalls[t] = 1

\* Every Target constructed, some concurrently, and all destroyed again.
C6_Witness ==
    /\ \A t \in Targets : tpc[t].phase = "dead"
    /\ registry = {}

(***************************************************************************)
(* C10.  Lifecycle ordering: in every state a Target subscribed to some    *)
(* Filter is a member of the registry.                                     *)
(***************************************************************************)
C10_SubscribedImpliesRegistered ==
    \A t \in Targets : SubscribedTo(t) # {} => t \in registry

\* A Target in its destructor, still registered, its subscriptions gone,
\* while another Target is subscribed and registered.
C10_Witness ==
    \E t, u \in Targets :
        /\ At(t) = "lock" /\ tpc[t].phase = "dtor" /\ t \in registry
        /\ SubscribedTo(t) = {}
        /\ SubscribedTo(u) # {} /\ u \in registry

(***************************************************************************)
(* C4.  Per-target emission atomicity: at most one thread at a time is     *)
(* inside the downstream Target's Output, whether it came through          *)
(* Target::Receive or through LogBuffer::Dump, and that thread holds the   *)
(* Target's receive lock.                                                  *)
(***************************************************************************)
C4_OneEmitterAtATime ==
    /\ Cardinality(inOut) <= 1
    /\ \A th \in inOut : mutexT = th

\* A Dump is inside the downstream Output while a Receive on the same
\* Target waits for the lock.
C4_Witness ==
    \E a, b \in Threads :
        /\ cpc[a] = "d_writing" /\ a \in inOut
        /\ cpc[b] = "rt_lock"


(***************************************************************************)
(* C11.  No silently dropped failure: an Insert whose implicit Dump fails  *)
(* (no downstream, or a downstream Output that returns non-zero) returns   *)
(* a failure status, not 0.                                                *)
(***************************************************************************)
\* The Dump made by the last call failed.
LastDumpFailed ==
    /\ last.dumped
    /\ \/ target = NoTarget
       \/ \E i \in 1..Len(last.calls) : last.calls[i].st # 0

C11_NoDroppedFailure ==
    (last.op = "Insert" /\ LastDumpFailed) => last.ret # 0

(***************************************************************************)
(* C12.  Byte-order mark.  On a build with 2-byte characters and a         *)
(* little-endian host: an Output call that opens a file which did not      *)
(* exist and writes to it leaves FF FE as the first bytes of what was      *)
(* written, the mark bytes occurring once; every other Output call adds    *)
(* no mark (the file existed, or it is open already).  On a build with     *)
(* single-byte characters no mark is ever written.                         *)
(***************************************************************************)
\* Occurrences of the byte FF, which only a mark contains.
MarkCount(content) ==
    Cardinality({i \in 1..Len(content) : content[i] = 255})

C12_ByteOrderMark ==
    [][ LET wide  == fBuild.unicode /\ fBuild.width = 2 /\ fBuild.little
            fresh == fFirstTime /\ ~fsExists
        IN  /\ (wide /\ fresh /\ fContent' # fContent)
               => /\ SubSeq(fContent', 1, 2) = <<255, 254>>
                  /\ MarkCount(fContent') = 1
            /\ (wide /\ ~fresh) => MarkCount(fContent') = MarkCount(fContent)
            /\ fBuild.width = 1 => MarkCount(fContent') = 0
      ]_vars

(***************************************************************************)
(* C13.  Status convention: LogFile::Output returns 0 or a negative        *)
(* value, on every call and on every platform branch.                      *)
(***************************************************************************)
C13_StatusConvention == fLast.ret <= 0

(***************************************************************************)
(* C14.  Dump stops at the first failure.  A Dump (called directly or by   *)
(* the destructor) on a LogBuffer that has a downstream hands the strings  *)
(* built from the buffered records to the downstream Output in order from  *)
(* the start; no call follows one that returned non-zero; after a failing  *)
(* call Dump returns its status and the cursor is where it was; when       *)
(* every call succeeds every record was handed over, Dump returns 0 and    *)
(* the cursor is at the start, and a Dump that finds the cursor at the     *)
(* start makes no call.                                                    *)
(***************************************************************************)
C14_DumpStopsAtFirstFailure ==
    (last.op \in {"Dump", "Destroy"} /\ target = Downstream)
    => LET n == Len(last.calls)
       IN  /\ n <= Len(last.pre)
           /\ \A i \in 1..n : last.calls[i].s = last.pre[i].sOut
           /\ \A i \in 1..(n - 1) : last.calls[i].st = 0
           /\ IF n > 0 /\ last.calls[n].st # 0
              THEN /\ last.ret = last.calls[n].st
                   /\ cur = last.precur
              ELSE /\ n = Len(last.pre)
                   /\ last.ret = 0
                   /\ cur = 0
           /\ last.precur = 0 => n = 0

\* Two records buffered, and a Dump whose first Output call failed: the
\* second record was not handed over and the cursor stays behind both.
C14_Witness ==
    /\ last.op = "Dump" /\ target = Downstream
    /\ Len(last.pre) = 2
    /\ Len(last.calls) = 1 /\ last.calls[1].st # 0
    /\ last.ret # 0
    /\ cur = last.precur /\ cur > 0

(***************************************************************************)
(* C15.  Conditional trimming in Dump: the string handed to the            *)
(* downstream Output is the buffered record without its last character     *)
(* when that character is a terminator and the downstream's                *)
(* m_bNullTerminatesStrings differs from the LogBuffer's, and the whole    *)
(* record in every other case.  Dump never reads the flag of the           *)
(* downstream, so the statement is made for both values it can have.       *)
(***************************************************************************)
\* m_bNullTerminatesStrings of the LogBuffer, as Target::Target sets it.
BufferNullTerminates == TRUE

\* The record as the claim has it forwarded to a downstream whose flag is
\* downstreamNT.
ForwardedAsClaimed(text, downstreamNT) ==
    IF /\ text # << >>
       /\ text[Len(text)] = NUL
       /\ downstreamNT # BufferNullTerminates
    THEN DropLast(text)
    ELSE text

C15_ConditionalTrim ==
    (last.op \in {"Dump", "Destroy"})
    => \A downstreamNT \in BOOLEAN :
         \A i \in 1..Len(last.calls) :
             last.calls[i].s = ForwardedAsClaimed(last.pre[i].text,
                                                  downstreamNT)

(***************************************************************************)
(* C16.  Buffer arena ownership: a thread about to read or write the       *)
(* LogBuffer's cursor or arena (the tests and stores of Insert, the loop   *)
(* and the reset of Dump) holds the LogBuffer's own receive lock, and no   *)
(* Dump is at its loop or its reset while another thread is in Insert.     *)
(***************************************************************************)
\* Statements of Insert and of Dump that access m_pCurrent or the arena.
InsertAccess == {"ins_test", "ins_header", "ins_copy"}
DumpAccess == {"d_loop", "d_output", "d_writing", "d_reset"}

C16_ArenaOwnership ==
    /\ \A th \in Threads :
         cpc[th] \in (InsertAccess \cup DumpAccess) => mutexB = th
    /\ \A a, b \in Threads :
         (a # b /\ cpc[a] \in InsertAccess) => cpc[b] \notin DumpAccess

(***************************************************************************)
(* C17.  Registry lock and receive locks never nest.  A thread that holds  *)
(* the AllTargets() lock holds no receive lock and is not about to take    *)
(* one; a thread that holds a receive lock does not hold the AllTargets()  *)
(* lock and is not about to take it; the AllTargets() lock is held only    *)
(* from the read of the set to the end of the insert or erase, and not     *)
(* while the formatter is set or Filters are subscribed or unsubscribed.   *)
(***************************************************************************)
C17_LocksNeverNest ==
    \A th \in Threads \cap Targets :
        /\ regLock = th
           => /\ mutexT # th /\ mutexB # th
              /\ cpc[th] \notin {"rt_lock", "rb_lock", "d_lock"}
              /\ At(th) \in {"read", "insert", "erase", "unlock"}
        /\ (mutexT = th \/ mutexB = th)
           => /\ regLock # th
              /\ At(th) # "lock"
        /\ At(th) \in {"SetFormatter", "Subscribe", "Unsubscribe"}
           => regLock # th

\* A thread that has returned from a Receive on the downstream Target is
\* in a constructor, inside the registry lock, while another thread is
\* inside the downstream Target's Output under the receive lock.
C17_Witness ==
    \E a, b \in Threads \cap Targets :
        /\ a # b
        /\ cloc[a].op = "ReceiveT" /\ cpc[a] = "idle"
        /\ regLock = a /\ At(a) = "insert"
        /\ mutexT = b /\ cpc[b] = "rt_writing"

(***************************************************************************)
(* C18.  Deadlock freedom of the buffered path.  Whenever some thread is   *)
(* inside Receive on the LogBuffer, Receive on the downstream Target or    *)
(* Dump, some thread inside a call can take a step; a thread about to      *)
(* take the LogBuffer's receive lock does not hold the downstream's, and   *)
(* a thread about to take the downstream's does not hold it already; and   *)
(* under fair scheduling every call returns.                               *)
(***************************************************************************)
C18_DeadlockFree ==
    /\ []( (\E th \in Threads : cpc[th] # "idle")
           => \E th \in Threads : cpc[th] # "idle" /\ ENABLED ConcStep(th) )
    /\ [](\A th \in Threads :
            /\ cpc[th] = "rb_lock" => mutexT # th
            /\ cpc[th] \in {"rt_lock", "d_lock"} => mutexT # th)
    /\ \A th \in Threads : (cpc[th] # "idle") ~> (cpc[th] = "idle")

\* One thread inside Insert's Dump, holding the LogBuffer's lock and
\* waiting for the downstream's, which a Receive on the downstream holds
\* while it is inside Output.
C18_Witness ==
    \E a, b \in Threads :
        /\ cpc[a] = "d_lock" /\ cloc[a].nested /\ mutexB = a
        /\ cpc[b] = "rt_writing" /\ mutexT = b

(***************************************************************************)
(* C19.  Lock release on every exit path.  A thread that is outside any    *)
(* call holds no receive lock, whatever its last call returned; a thread   *)
(* holds the downstream Target's lock only between taking it and the end   *)
(* of its Receive or Dump (so not after the Dump inside Insert has         *)
(* returned), and the LogBuffer's lock only inside Receive on it.          *)
(***************************************************************************)
\* The statements inside the scope of the ScopedLock on the downstream
\* Target (lines 163-165 and 408-434) and on the LogBuffer (163-165).
ScopeT == {"rt_output", "rt_writing", "rt_unlock",
           "d_loop", "d_output", "d_writing", "d_reset"}
ScopeB == {"ins_test", "ins_size", "ins_header", "ins_copy", "rb_unlock",
           "d_null", "d_lock", "d_loop", "d_output", "d_writing", "d_reset"}

C19_LocksReleasedOnReturn ==
    \A th \in Threads :
        /\ cpc[th] = "idle" => (mutexT # th /\ mutexB # th)
        /\ mutexT = th => cpc[th] \in ScopeT
        /\ mutexB = th => (cpc[th] \in ScopeB /\ cloc[th].op = "ReceiveB")

\* A Receive on the LogBuffer has returned -1 for a record longer than
\* the arena, after the Dump inside its Insert stopped at a failing Output
\* (pCurrent behind the first length word, the cursor not reset), and a
\* later Receive on the downstream Target has got the lock.
C19_Witness ==
    \E b, c \in Threads :
        /\ cpc[b] = "idle" /\ cloc[b].op = "ReceiveB" /\ cloc[b].ret = -1
        /\ Len(cloc[b].text) > Cap
        /\ cloc[b].nested /\ cloc[b].dp = HeaderLen /\ cur > 0
        /\ cpc[c] = "rt_output" /\ mutexT = c

(***************************************************************************)
(* C20.  Dump with no downstream.  A Dump on a LogBuffer whose             *)
(* m_pOutputTarget is NULL returns -1, calls no Output and leaves the      *)
(* arena and the cursor as they were; SetTarget changes neither; and the   *)
(* Dump (or destructor) that follows the SetTarget hands the downstream    *)
(* Output the records that were buffered when SetTarget was called, in     *)
(* order, each as Dump forwards it, up to the first call that fails.       *)
(***************************************************************************)
C20_NullDumpKeepsRecords ==
    [][ LET call == last'.op
            made == nops' = nops + 1 \/ alive # alive'
        IN  /\ (made /\ call = "Dump" /\ target = NoTarget)
               => /\ last'.ret = -1
                  /\ last'.calls = << >>
                  /\ mem' = mem /\ cur' = cur
                  /\ sink' = sink
                  /\ Entries(mem', 0, cur') = last'.pre
            /\ (made /\ call = "SetTarget")
               => /\ mem' = mem /\ cur' = cur
                  /\ target' = Downstream
            /\ (made /\ call \in {"Dump", "Destroy"} /\ last.op = "SetTarget")
               => /\ last'.pre = last.pre
                  /\ Len(last'.calls) <= Len(last.pre)
                  /\ \A i \in 1..Len(last'.calls) :
                       last'.calls[i].s = last.pre[i].sOut
                  /\ (\A i \in 1..Len(last'.calls) : last'.calls[i].st = 0)
                     => Len(last'.calls) = Len(last.pre)
      ]_vars

\* A Dump on a LogBuffer without downstream that holds two records has
\* returned -1: both records are still buffered.
C20_Witness ==
    /\ last.op = "Dump" /\ target = NoTarget
    /\ last.ret = -1
    /\ Len(last.pre) = 2
    /\ Entries(mem, 0, cur) = last.pre

=============================================================================
